---------------------------- MODULE Spec2Model ----------------------------
(***************************************************************************)
(* A model of thread_pool (src/thread_pool.h): a fixed set of worker       *)
(* threads running thread_pool::routine over one task_queue, client        *)
(* threads calling initialize / add_task / get_status / terminate /        *)
(* terminate_now.                                                          *)
(*                                                                         *)
(* Every section of code that runs under m_rw_lock is one action (nothing  *)
(* inside such a section blocks, except the condition-variable wait, which *)
(* is split where it releases the lock).  Every access made outside the    *)
(* lock is an action of its own, so that all interleavings of unlocked     *)
(* reads and writes are explored.  Memory is sequentially consistent.      *)
(*                                                                         *)
(* task_queue.h and the locks it declares are not among the sources; the   *)
(* queue (emplace, pop, size, clear) is modelled from the specification's  *)
(* section 4.1.  The debug telemetry (m_debug, m_wait_time,                *)
(* m_avg_queue_len, m_avg_read_cnt, m_tasks_processed, m_print_lock) only  *)
(* feeds printf and is left out.                                           *)
(***************************************************************************)
EXTENDS Integers, Sequences, FiniteSets, TLC

\* ------------------------------------------------------------------ bounds
\* Largest worker_count passed to initialize.
MaxWorkers == 2
\* Number of add_task calls that are accepted over the pool's lifetime.
MaxTasks == 2

\* (size_t)-1: the rejection sentinel of add_task and the initial task_id
\* of a worker iteration.
SIZE_MAX == -1

\* The client threads that call the pool's public operations: one that
\* submits and queries, one that initializes and shuts down.
Submitters == {"c1"}
Controllers == {"c2"}
Clients == Submitters \cup Controllers
Workers == 1..MaxWorkers
TaskIds == 0..(MaxTasks - 1)
IdDom == TaskIds \cup {SIZE_MAX}

\* The value of a map slot that holds no entry.
NoEntry == [status |-> "None", result |-> 0]
\* struct TaskStatus: operator[] value-initialises a new entry.
TaskStatus == [status |-> "Waiting", result |-> 0]
\* What the callable submitted as task `id` returns (never 0 here, so that
\* a stored result differs from the initial one).
TaskResult(id) == id + 1

VARIABLES
    m_initialized,   \* bool m_initialized
    m_terminated,    \* bool m_terminated
    m_workers,       \* std::vector<std::thread>: per handle, joinable()
    m_tasks,         \* task_queue: [queue: pending ids, count: ids handed out]
    m_task_status,   \* std::unordered_map<size_t, TaskStatus>
    rw_lock,         \* m_rw_lock: 0 when free, else the worker holding it
    wpc,             \* per worker thread: position in routine()
    w_task_id,       \* routine's local task_id
    w_acquired,      \* routine's local task_acquired
    w_queue_len,     \* routine's local queue_len
    cpc,             \* per client: position in the operation it is running
    cop,             \* per client: the operation it is running
    cloc,            \* per client: locals of that operation
    cres,            \* per client: value the finished operation returned
    returned,        \* history: ids returned by add_task, in order of return
    dequeued,        \* history: ids popped by workers
    aborted          \* std::terminate() was called: the process is gone

vars == <<m_initialized, m_terminated, m_workers, m_tasks, m_task_status,
          rw_lock, wpc, w_task_id, w_acquired, w_queue_len, cpc, cop, cloc,
          cres, returned, dequeued, aborted>>

poolVars == <<m_initialized, m_terminated, m_workers, m_tasks, m_task_status>>
workerVars == <<wpc, w_task_id, w_acquired, w_queue_len>>
histVars == <<returned, dequeued>>

\* ------------------------------------------------------------ helpers
Range(s) == {s[i] : i \in 1..Len(s)}

\* The ids that are in the queue.
Queued == Range(m_tasks.queue)

\* The ids the queue handed out that were discarded by a clear(): neither
\* in the queue nor ever popped.
Cleared ==
    {id \in TaskIds : id < m_tasks.count /\ id \notin Queued
                      /\ id \notin dequeued}

NoLocals == [id |-> SIZE_MAX, i |-> 0, snap |-> {}, deq |-> {}, ran |-> FALSE]

\* ------------------------------------------------- task_queue (section 4.1)
\* enqueue(task) -> id: appends at the back, returns a fresh id.
emplace(q) == [queue |-> Append(q.queue, q.count), count |-> q.count + 1]
\* pop taking the item at the back of the queue.
pop_back(q, old_id) ==
    IF Len(q.queue) = 0
    THEN [ok |-> FALSE, id |-> old_id, q |-> q]
    ELSE [ok |-> TRUE, id |-> q.queue[Len(q.queue)],
          q |-> [q EXCEPT !.queue = SubSeq(q.queue, 1, Len(q.queue) - 1)]]

\* dequeue(): removes and returns the front item if there is one, else
\* reports emptiness and leaves the caller's id alone.
pop(q, old_id) ==
    IF Len(q.queue) = 0
    THEN [ok |-> FALSE, id |-> old_id, q |-> q]
    ELSE [ok |-> TRUE, id |-> Head(q.queue),
          q |-> [q EXCEPT !.queue = Tail(q.queue)]]
\* size(): count of pending items.
size(q) == Len(q.queue)
\* clear(): discards the pending items, keeps the ids already handed out.
clear(q) == [q EXCEPT !.queue = <<>>]

\* ------------------------------------------------------------ thread_pool
working_unsafe == m_initialized /\ ~m_terminated

\* m_task_status[id].status = s  (operator[] creates the entry if absent)
SetStatus(tbl, id, s) ==
    LET e == IF tbl[id].status = "None" THEN TaskStatus ELSE tbl[id]
    IN  [tbl EXCEPT ![id] = [e EXCEPT !.status = s]]

\* m_task_status[id].result = r
SetResult(tbl, id, r) ==
    LET e == IF tbl[id].status = "None" THEN TaskStatus ELSE tbl[id]
    IN  [tbl EXCEPT ![id] = [e EXCEPT !.result = r]]

Init ==
    /\ m_initialized = FALSE
    /\ m_terminated = FALSE
    /\ m_workers = <<>>
    /\ m_tasks = [queue |-> <<>>, count |-> 0]
    /\ m_task_status = [id \in IdDom |-> NoEntry]
    /\ rw_lock = 0
    /\ wpc = [w \in Workers |-> "none"]
    /\ w_task_id = [w \in Workers |-> SIZE_MAX]
    /\ w_acquired = [w \in Workers |-> FALSE]
    /\ w_queue_len = [w \in Workers |-> 0]
    /\ cpc = [c \in Clients |-> "idle"]
    /\ cop = [c \in Clients |-> "none"]
    /\ cloc = [c \in Clients |-> NoLocals]
    /\ cres = [c \in Clients |-> 0]
    /\ returned = <<>>
    /\ dequeued = {}
    /\ aborted = FALSE

\* A client's operation has returned `r`.
Finish(c, r) ==
    /\ cpc' = [cpc EXCEPT ![c] = "done"]
    /\ cres' = [cres EXCEPT ![c] = r]

\* The caller goes on after the operation returned.
Return(c) ==
    /\ ~aborted
    /\ cpc[c] = "done"
    /\ cpc' = [cpc EXCEPT ![c] = "idle"]
    /\ cop' = [cop EXCEPT ![c] = "none"]
    /\ cloc' = [cloc EXCEPT ![c] = NoLocals]
    /\ cres' = [cres EXCEPT ![c] = 0]
    /\ UNCHANGED <<poolVars, rw_lock, workerVars, histVars, aborted>>

\* initialize(worker_count): the whole function runs under the write lock.
initialize(c, n) ==
    /\ ~aborted
    /\ cpc[c] = "idle"
    /\ rw_lock = 0
    /\ cop' = [cop EXCEPT ![c] = "initialize"]
    /\ Finish(c, 0)
    /\ IF m_initialized \/ m_terminated
       THEN UNCHANGED <<poolVars, workerVars>>
       ELSE /\ Len(m_workers) + n <= MaxWorkers
            /\ m_workers' = m_workers \o [k \in 1..n |-> TRUE]
            /\ wpc' = [w \in Workers |->
                         IF w > Len(m_workers) /\ w <= Len(m_workers) + n
                         THEN "lock" ELSE wpc[w]]
            /\ w_task_id' = [w \in Workers |->
                         IF w > Len(m_workers) /\ w <= Len(m_workers) + n
                         THEN SIZE_MAX ELSE w_task_id[w]]
            /\ w_acquired' = [w \in Workers |->
                         IF w > Len(m_workers) /\ w <= Len(m_workers) + n
                         THEN FALSE ELSE w_acquired[w]]
            /\ w_queue_len' = [w \in Workers |->
                         IF w > Len(m_workers) /\ w <= Len(m_workers) + n
                         THEN 0 ELSE w_queue_len[w]]
            /\ m_initialized' = (Len(m_workers') > 0)
            /\ UNCHANGED <<m_terminated, m_tasks, m_task_status>>
    /\ UNCHANGED <<rw_lock, cloc, histVars, aborted>>

\* ------------------------------------------------------------ routine()
\* routine_wait_condition with the lock's scope extended over the rest of
\* the iteration: the write lock is still held when the wait returns.
routine_wait_condition_keep_lock(w) ==
    /\ ~aborted
    /\ wpc[w] = "lock"
    /\ rw_lock = 0
    /\ LET p == pop(m_tasks, w_task_id[w]) IN
       /\ w_acquired' = [w_acquired EXCEPT ![w] = p.ok]
       /\ w_task_id' = [w_task_id EXCEPT ![w] = p.id]
       /\ m_tasks' = p.q
       /\ w_queue_len' = [w_queue_len EXCEPT ![w] = size(p.q)]
       /\ dequeued' = IF p.ok THEN dequeued \cup {p.id} ELSE dequeued
       /\ wpc' = [wpc EXCEPT ![w] =
                     IF m_terminated \/ p.ok THEN "check" ELSE "prewait"]
       /\ rw_lock' = w
    /\ UNCHANGED <<m_initialized, m_terminated, m_workers, m_task_status,
                   cpc, cop, cloc, cres, returned, aborted>>

\* routine_wait_condition taking the task at the front of the queue without
\* removing it.
routine_wait_condition_no_remove(w) ==
    /\ ~aborted
    /\ wpc[w] = "lock"
    /\ rw_lock = 0
    /\ LET p == pop(m_tasks, w_task_id[w]) IN
       /\ w_acquired' = [w_acquired EXCEPT ![w] = p.ok]
       /\ w_task_id' = [w_task_id EXCEPT ![w] = p.id]
       /\ w_queue_len' = [w_queue_len EXCEPT ![w] = size(m_tasks)]
       /\ dequeued' = IF p.ok THEN dequeued \cup {p.id} ELSE dequeued
       /\ IF m_terminated \/ p.ok
          THEN /\ wpc' = [wpc EXCEPT ![w] = "check"]
               /\ rw_lock' = 0
          ELSE /\ wpc' = [wpc EXCEPT ![w] = "prewait"]
               /\ rw_lock' = w
    /\ UNCHANGED <<m_initialized, m_terminated, m_workers, m_tasks,
                   m_task_status, cpc, cop, cloc, cres, returned, aborted>>

\* Lines 99-105: take the write lock and evaluate wait_condition once: pop,
\* then "m_terminated || task_acquired".  When it is true the wait returns
\* and the lock is released at the end of the scope (line 106); when it is
\* false the thread still holds the lock and is about to block.
routine_wait_condition(w) ==
    /\ ~aborted
    /\ wpc[w] = "lock"
    /\ rw_lock = 0
    /\ LET p == pop(m_tasks, w_task_id[w]) IN
       /\ w_acquired' = [w_acquired EXCEPT ![w] = p.ok]
       /\ w_task_id' = [w_task_id EXCEPT ![w] = p.id]
       /\ m_tasks' = p.q
       /\ w_queue_len' = [w_queue_len EXCEPT ![w] = size(p.q)]
       /\ dequeued' = IF p.ok THEN dequeued \cup {p.id} ELSE dequeued
       /\ IF m_terminated \/ p.ok
          THEN /\ wpc' = [wpc EXCEPT ![w] = "check"]
               /\ rw_lock' = 0
          ELSE /\ wpc' = [wpc EXCEPT ![w] = "prewait"]
               /\ rw_lock' = w
    /\ UNCHANGED <<m_initialized, m_terminated, m_workers, m_task_status,
                   cpc, cop, cloc, cres, returned, aborted>>

\* Line 105, condition_variable_any::wait: release the lock and block, as
\* one step with respect to notify_one / notify_all.
routine_block(w) ==
    /\ ~aborted
    /\ wpc[w] = "prewait"
    /\ rw_lock = w
    /\ wpc' = [wpc EXCEPT ![w] = "waiting"]
    /\ rw_lock' = 0
    /\ UNCHANGED <<poolVars, w_task_id, w_acquired, w_queue_len, cpc, cop,
                   cloc, cres, histVars, aborted>>

\* A spurious wake-up of the wait: the thread goes back for the lock and
\* evaluates wait_condition again.
routine_spurious_wake(w) ==
    /\ ~aborted
    /\ wpc[w] = "waiting"
    /\ wpc' = [wpc EXCEPT ![w] = "lock"]
    /\ UNCHANGED <<poolVars, rw_lock, w_task_id, w_acquired, w_queue_len,
                   cpc, cop, cloc, cres, histVars, aborted>>

\* Lines 107-110: m_terminated is read again, outside the lock.
routine_check(w) ==
    /\ ~aborted
    /\ wpc[w] = "check"
    /\ wpc' = [wpc EXCEPT ![w] =
                  IF m_terminated /\ ~w_acquired[w] THEN "exited" ELSE "working"]
    /\ UNCHANGED <<poolVars, rw_lock, w_task_id, w_acquired, w_queue_len,
                   cpc, cop, cloc, cres, histVars, aborted>>

\* Line 111: m_task_status[task_id].status = Working, outside the lock.
routine_mark_working(w) ==
    /\ ~aborted
    /\ wpc[w] = "working"
    /\ m_task_status' = SetStatus(m_task_status, w_task_id[w], "Working")
    /\ wpc' = [wpc EXCEPT ![w] = "run"]
    /\ UNCHANGED <<m_initialized, m_terminated, m_workers, m_tasks, rw_lock,
                   w_task_id, w_acquired, w_queue_len, cpc, cop, cloc, cres,
                   histVars, aborted>>

\* Line 122: m_task_status[task_id].result = task().  Calling the empty
\* std::function of an iteration that acquired nothing throws
\* bad_function_call out of the thread: std::terminate().
routine_run(w) ==
    /\ ~aborted
    /\ wpc[w] = "run"
    /\ IF w_acquired[w]
       THEN /\ m_task_status' = SetResult(m_task_status, w_task_id[w],
                                           TaskResult(w_task_id[w]))
            /\ wpc' = [wpc EXCEPT ![w] = "finish"]
            /\ UNCHANGED aborted
       ELSE /\ aborted' = TRUE
            /\ UNCHANGED <<m_task_status, wpc>>
    /\ UNCHANGED <<m_initialized, m_terminated, m_workers, m_tasks, rw_lock,
                   w_task_id, w_acquired, w_queue_len, cpc, cop, cloc, cres,
                   histVars>>

\* Line 123: status = Finished; then the next iteration of while(true)
\* starts with fresh locals (lines 94-97).
routine_mark_finished(w) ==
    /\ ~aborted
    /\ wpc[w] = "finish"
    /\ m_task_status' = SetStatus(m_task_status, w_task_id[w], "Finished")
    /\ wpc' = [wpc EXCEPT ![w] = "lock"]
    /\ w_task_id' = [w_task_id EXCEPT ![w] = SIZE_MAX]
    /\ w_acquired' = [w_acquired EXCEPT ![w] = FALSE]
    /\ w_queue_len' = [w_queue_len EXCEPT ![w] = 0]
    /\ UNCHANGED <<m_initialized, m_terminated, m_workers, m_tasks, rw_lock,
                   cpc, cop, cloc, cres, histVars, aborted>>

\* ------------------------------------------------------------ add_task
\* Number of accepted add_task calls that have not reached emplace yet.
PendingEmplace == Cardinality({c \in Clients : cpc[c] = "add_emplace"})

\* Lines 135-140: the check under the read lock.
add_task_check(c) ==
    /\ ~aborted
    /\ cpc[c] = "idle"
    /\ rw_lock = 0
    /\ cop' = [cop EXCEPT ![c] = "add_task"]
    /\ IF working_unsafe
       THEN /\ m_tasks.count + PendingEmplace < MaxTasks
            /\ cpc' = [cpc EXCEPT ![c] = "add_emplace"]
            /\ cloc' = [cloc EXCEPT ![c].snap = Range(returned)]
            /\ UNCHANGED cres
       ELSE /\ Finish(c, SIZE_MAX)
            /\ UNCHANGED cloc
    /\ UNCHANGED <<poolVars, rw_lock, workerVars, histVars, aborted>>

\* add_task_emplace taking the queue's length, not the id emplace returns,
\* as the task's id.
add_task_emplace_by_size(c) ==
    /\ ~aborted
    /\ cpc[c] = "add_emplace"
    /\ cloc' = [cloc EXCEPT ![c].id = size(m_tasks)]
    /\ m_tasks' = emplace(m_tasks)
    /\ cpc' = [cpc EXCEPT ![c] = "add_status"]
    /\ UNCHANGED <<m_initialized, m_terminated, m_workers, m_task_status,
                   rw_lock, workerVars, cop, cres, histVars, aborted>>

\* Line 143: size_t id = m_tasks.emplace(bind), outside m_rw_lock.
add_task_emplace(c) ==
    /\ ~aborted
    /\ cpc[c] = "add_emplace"
    /\ cloc' = [cloc EXCEPT ![c].id = m_tasks.count]
    /\ m_tasks' = emplace(m_tasks)
    /\ cpc' = [cpc EXCEPT ![c] = "add_status"]
    /\ UNCHANGED <<m_initialized, m_terminated, m_workers, m_task_status,
                   rw_lock, workerVars, cop, cres, histVars, aborted>>

\* Line 144: m_task_status[id].status = Waiting, outside m_rw_lock.
add_task_set_waiting(c) ==
    /\ ~aborted
    /\ cpc[c] = "add_status"
    /\ m_task_status' = SetStatus(m_task_status, cloc[c].id, "Waiting")
    /\ cpc' = [cpc EXCEPT ![c] = "add_notify"]
    /\ UNCHANGED <<m_initialized, m_terminated, m_workers, m_tasks, rw_lock,
                   workerVars, cop, cloc, cres, histVars, aborted>>

\* notify_one(): wakes one thread blocked in the wait, if there is one.
NotifyOne(pc) ==
    IF \E w \in Workers : pc[w] = "waiting"
    THEN {[pc EXCEPT ![w] = "lock"] : w \in {v \in Workers : pc[v] = "waiting"}}
    ELSE {pc}

\* notify_all(): wakes every thread blocked in the wait.
NotifyAll(pc) == [w \in Workers |-> IF pc[w] = "waiting" THEN "lock" ELSE pc[w]]

\* Lines 147-154: m_task_waiter.notify_one(); return id.
add_task_notify(c) ==
    /\ ~aborted
    /\ cpc[c] = "add_notify"
    /\ wpc' \in NotifyOne(wpc)
    /\ returned' = Append(returned, cloc[c].id)
    /\ Finish(c, cloc[c].id)
    /\ UNCHANGED <<poolVars, rw_lock, w_task_id, w_acquired, w_queue_len,
                   cop, cloc, dequeued, aborted>>

\* ------------------------------------------------------------ get_status
\* Lines 158-174: count(id), at(id); 0 for an unknown id and for Working.
get_status_result(id) ==
    IF m_task_status[id].status = "None" THEN 0
    ELSE IF m_task_status[id].status = "Working" THEN 0
    ELSE m_task_status[id].result

\* The threads whose next statement inserts a new entry into m_task_status:
\* add_task at line 144 and a worker at line 111, when operator[] finds no
\* entry for the id.
InsertingClients ==
    {c \in Clients : cpc[c] = "add_status"
                      /\ m_task_status[cloc[c].id].status = "None"}
InsertingWorkers ==
    {w \in Workers : wpc[w] = "working"
                      /\ m_task_status[w_task_id[w]].status = "None"}
InsertPending == InsertingClients # {} \/ InsertingWorkers # {}

\* Some thread's next statement writes m_task_status (lines 111, 122, 123
\* and 144); none of these writes is made under a lock.
WritePending ==
    \/ \E c \in Clients : cpc[c] = "add_status"
    \/ \E w \in Workers : wpc[w] \in {"working", "run", "finish"}

\* Lines 158-174: get_status(id) takes no lock.  With no write to the table
\* pending it returns get_status_result.  A lookup that overlaps a write is
\* a data race: besides the value of the table before or after the write
\* (which the interleaving of the steps gives) it may miss the entry or
\* read a torn one and return 0, and when the write is an insertion (the
\* table may rehash under the lookup) the process may crash.
get_status(c, id) ==
    /\ ~aborted
    /\ cpc[c] = "idle"
    /\ cop' = [cop EXCEPT ![c] = "get_status"]
    /\ cloc' = [cloc EXCEPT ![c].id = id]
    /\ \/ /\ ~WritePending
          /\ Finish(c, get_status_result(id))
          /\ UNCHANGED aborted
       \/ /\ WritePending
          /\ \E r \in {0, get_status_result(id)} : Finish(c, r)
          /\ UNCHANGED aborted
       \/ /\ InsertPending
          /\ aborted' = TRUE
          /\ cpc' = [cpc EXCEPT ![c] = "crashed"]
          /\ UNCHANGED cres
    /\ UNCHANGED <<poolVars, rw_lock, workerVars, histVars>>

\* ------------------------------------------------- terminate, terminate_now
\* The thread slots once every std::thread object has been destroyed.
NoThreads == [w \in Workers |-> "none"]

\* m_workers.clear(): destroying a std::thread that is still joinable calls
\* std::terminate().
ClearAborts == \E k \in 1..Len(m_workers) : m_workers[k]

\* Lines 194-203 and 238-244: the branch taken when the pool is not working.
\* It runs under the write lock and returns from the call.
NotWorkingBranch(c) ==
    IF ClearAborts
    THEN /\ aborted' = TRUE
         /\ cpc' = [cpc EXCEPT ![c] = "crashed"]
         /\ UNCHANGED <<m_workers, wpc, m_terminated, m_initialized, cres>>
    ELSE /\ m_workers' = <<>>
         /\ wpc' = NoThreads
         /\ m_terminated' = FALSE
         /\ m_initialized' = FALSE
         /\ Finish(c, 0)
         /\ UNCHANGED aborted

\* Lines 183-204: the locked section of terminate(), entered as operation
\* `op`; snap is what the caller's claim remembers of the state at the call.
terminate_locked(c, op, snap) ==
    /\ ~aborted
    /\ cpc[c] = "idle"
    /\ rw_lock = 0
    /\ cop' = [cop EXCEPT ![c] = op]
    /\ IF working_unsafe
       THEN /\ m_terminated' = TRUE
            /\ cpc' = [cpc EXCEPT ![c] = "notify_all"]
            /\ cloc' = [cloc EXCEPT ![c].snap = snap,
                                    ![c].deq = dequeued,
                                    ![c].ran = TRUE]
            /\ UNCHANGED <<m_workers, wpc, m_initialized, cres, aborted>>
       ELSE /\ NotWorkingBranch(c)
            /\ UNCHANGED cloc
    /\ UNCHANGED <<m_tasks, m_task_status, rw_lock, w_task_id, w_acquired,
                   w_queue_len, histVars>>

\* Lines 176-216: terminate() called by a client.  snap: the ids add_task
\* has returned and no clear() has discarded.
terminate(c) == terminate_locked(c, "terminate", Range(returned) \ Cleared)

\* Lines 15-16: ~thread_pool() { terminate(); }.  An object is destroyed
\* when no other thread is inside one of its member functions.  snap: the
\* ids that are in the queue.
destructor(c) ==
    /\ \A d \in Clients \ {c} : cpc[d] = "idle"
    /\ terminate_locked(c, "destructor", Queued)

\* Lines 218-225: terminate_now() has been called and has not taken the
\* lock yet.  snap remembers the ids that are in the queue with status
\* Waiting at the call.
terminate_now_call(c) ==
    /\ ~aborted
    /\ cpc[c] = "idle"
    /\ cop' = [cop EXCEPT ![c] = "terminate_now"]
    /\ cpc' = [cpc EXCEPT ![c] = "now_lock"]
    /\ cloc' = [cloc EXCEPT ![c].snap =
                   {id \in Range(m_tasks.queue) :
                        m_task_status[id].status = "Waiting"}]
    /\ UNCHANGED <<poolVars, rw_lock, workerVars, cres, histVars, aborted>>

\* Lines 226-245: the locked section of terminate_now(): m_tasks.clear()
\* comes first, whatever the state of the pool.
terminate_now(c) ==
    /\ ~aborted
    /\ cpc[c] = "now_lock"
    /\ rw_lock = 0
    /\ m_tasks' = clear(m_tasks)
    /\ IF working_unsafe
       THEN /\ m_terminated' = TRUE
            /\ cpc' = [cpc EXCEPT ![c] = "notify_all"]
            /\ cloc' = [cloc EXCEPT ![c].deq = dequeued, ![c].ran = TRUE]
            /\ UNCHANGED <<m_workers, wpc, m_initialized, cres, aborted>>
       ELSE /\ NotWorkingBranch(c)
            /\ UNCHANGED cloc
    /\ UNCHANGED <<m_task_status, rw_lock, w_task_id, w_acquired,
                   w_queue_len, cop, histVars>>

\* Lines 205 and 246: m_task_waiter.notify_all(), outside the lock.
shutdown_notify_all(c) ==
    /\ ~aborted
    /\ cpc[c] = "notify_all"
    /\ wpc' = NotifyAll(wpc)
    /\ cpc' = [cpc EXCEPT ![c] = IF Len(m_workers) = 0 THEN "clear" ELSE "join"]
    /\ cloc' = [cloc EXCEPT ![c].i = 1]
    /\ UNCHANGED <<poolVars, rw_lock, w_task_id, w_acquired, w_queue_len,
                   cop, cres, histVars, aborted>>

\* shutdown_join without the wait for the thread to leave routine(): the
\* handle is given up while its thread may still be running.
shutdown_join_no_wait(c) ==
    /\ ~aborted
    /\ cpc[c] = "join"
    /\ LET k == cloc[c].i IN
       /\ k <= Len(m_workers)
       /\ m_workers' = [m_workers EXCEPT ![k] = FALSE]
       /\ cloc' = [cloc EXCEPT ![c].i = k + 1]
       /\ cpc' = [cpc EXCEPT ![c] =
                     IF k + 1 > Len(m_workers) THEN "clear" ELSE "join"]
    /\ UNCHANGED <<m_initialized, m_terminated, m_tasks, m_task_status,
                   rw_lock, workerVars, cop, cres, histVars, aborted>>

\* Lines 206-209 and 247-250: one worker.join() of the loop over m_workers.
\* join() blocks until the thread has left routine(); joining a handle that
\* is not joinable (or that is gone) throws out of the call.
shutdown_join(c) ==
    /\ ~aborted
    /\ cpc[c] = "join"
    /\ LET k == cloc[c].i IN
       IF k <= Len(m_workers) /\ m_workers[k]
       THEN /\ wpc[k] = "exited"
            /\ m_workers' = [m_workers EXCEPT ![k] = FALSE]
            /\ cloc' = [cloc EXCEPT ![c].i = k + 1]
            /\ cpc' = [cpc EXCEPT ![c] =
                          IF k + 1 > Len(m_workers) THEN "clear" ELSE "join"]
            /\ UNCHANGED aborted
       ELSE /\ aborted' = TRUE
            /\ cpc' = [cpc EXCEPT ![c] = "crashed"]
            /\ UNCHANGED <<m_workers, cloc>>
    /\ UNCHANGED <<m_initialized, m_terminated, m_tasks, m_task_status,
                   rw_lock, workerVars, cop, cres, histVars>>

\* Lines 213 and 251: m_workers.clear(), outside the lock.
shutdown_clear(c) ==
    /\ ~aborted
    /\ cpc[c] = "clear"
    /\ IF ClearAborts
       THEN /\ aborted' = TRUE
            /\ cpc' = [cpc EXCEPT ![c] = "crashed"]
            /\ UNCHANGED <<m_workers, wpc>>
       ELSE /\ m_workers' = <<>>
            /\ wpc' = NoThreads
            /\ cpc' = [cpc EXCEPT ![c] = "reset_terminated"]
            /\ UNCHANGED aborted
    /\ UNCHANGED <<m_initialized, m_terminated, m_tasks, m_task_status,
                   rw_lock, w_task_id, w_acquired, w_queue_len, cop, cloc,
                   cres, histVars>>

\* Lines 214 and 252: m_terminated = false, outside the lock.
shutdown_reset_terminated(c) ==
    /\ ~aborted
    /\ cpc[c] = "reset_terminated"
    /\ m_terminated' = FALSE
    /\ cpc' = [cpc EXCEPT ![c] = "reset_initialized"]
    /\ UNCHANGED <<m_initialized, m_workers, m_tasks, m_task_status, rw_lock,
                   workerVars, cop, cloc, cres, histVars, aborted>>

\* Lines 215 and 253: m_initialized = false; the call returns.
shutdown_reset_initialized(c) ==
    /\ ~aborted
    /\ cpc[c] = "reset_initialized"
    /\ m_initialized' = FALSE
    /\ Finish(c, 0)
    /\ UNCHANGED <<m_terminated, m_workers, m_tasks, m_task_status, rw_lock,
                   workerVars, cop, cloc, histVars, aborted>>

\* ------------------------------------------------------------ specification
WorkerStep(w) ==
    \/ routine_wait_condition(w)
    \/ routine_block(w)
    \/ routine_check(w)
    \/ routine_mark_working(w)
    \/ routine_run(w)
    \/ routine_mark_finished(w)

\* The steps that finish an operation a client has already called.
ClientProgress(c) ==
    \/ add_task_emplace(c)
    \/ add_task_set_waiting(c)
    \/ add_task_notify(c)
    \/ terminate_now(c)
    \/ shutdown_notify_all(c)
    \/ shutdown_join(c)
    \/ shutdown_clear(c)
    \/ shutdown_reset_terminated(c)
    \/ shutdown_reset_initialized(c)

\* The call of a thread that submits.
SubmitterCall(c) == add_task_check(c)

\* The calls of a thread that starts and stops the pool.
ControllerCall(c) ==
    \/ \E n \in 0..MaxWorkers : initialize(c, n)
    \/ terminate(c)
    \/ terminate_now_call(c)

\* One submitting thread and one controlling thread, each calling its
\* operations in any order, any number of times.
Next ==
    \/ \E w \in Workers : WorkerStep(w)
    \/ \E w \in Workers : routine_spurious_wake(w)
    \/ \E c \in Clients : ClientProgress(c)
    \/ \E c \in Submitters : SubmitterCall(c)
    \/ \E c \in Controllers : ControllerCall(c)
    \/ \E c \in Clients : Return(c)

Spec == Init /\ [][Next]_vars

\* One submitting thread and one controlling thread, with the scheduling a
\* running program has: a thread that can take a step eventually takes
\* one.  No client is obliged to call anything, and no wake-up is obliged
\* to be spurious.
Fairness ==
    /\ \A w \in Workers : WF_vars(WorkerStep(w))
    /\ \A c \in Clients : WF_vars(ClientProgress(c))

FairSpec == Init /\ [][Next]_vars /\ Fairness

\* Two threads that may both start and stop the pool, one of which also
\* submits.
RaceNext ==
    \/ \E w \in Workers : WorkerStep(w)
    \/ \E w \in Workers : routine_spurious_wake(w)
    \/ \E c \in Clients : ClientProgress(c)
    \/ \E c \in Submitters : SubmitterCall(c)
    \/ \E c \in Clients : ControllerCall(c)
    \/ \E c \in Clients : Return(c)

RaceSpec == Init /\ [][RaceNext]_vars

FairRaceSpec == Init /\ [][RaceNext]_vars /\ Fairness

\* The pool object is being, or has been, destroyed.
Destroyed == \E c \in Clients : cop[c] = "destructor"

\* The life of one pool object: the threads of Spec until the controlling
\* thread destroys the object; no member function is called on it after
\* that, and the destructor's steps are those of terminate().
DtorNext ==
    \/ \E w \in Workers : WorkerStep(w)
    \/ \E w \in Workers : routine_spurious_wake(w)
    \/ \E c \in Clients : ClientProgress(c)
    \/ \E c \in Submitters : ~Destroyed /\ SubmitterCall(c)
    \/ \E c \in Controllers : ~Destroyed /\ ControllerCall(c)
    \/ \E c \in Controllers : ~Destroyed /\ destructor(c)
    \/ \E c \in Clients : ~Destroyed /\ Return(c)

DtorSpec == Init /\ [][DtorNext]_vars

\* The threads of Spec, each of which may also query a status.
QueryNext ==
    \/ \E w \in Workers : WorkerStep(w)
    \/ \E w \in Workers : routine_spurious_wake(w)
    \/ \E c \in Clients : ClientProgress(c)
    \/ \E c \in Submitters : SubmitterCall(c)
    \/ \E c \in Controllers : ControllerCall(c)
    \/ \E c \in Clients : \E id \in IdDom : get_status(c, id)
    \/ \E c \in Clients : Return(c)

QuerySpec == Init /\ [][QueryNext]_vars

\* ------------------------------------------------------------------ claims
StatusOf(id) == m_task_status[id].status

\* Client c's terminate() took the branch of a working pool and has returned.
GracefulReturned(c) ==
    cpc[c] = "done" /\ cop[c] = "terminate" /\ cloc[c].ran

\* What C1 promises client c when its terminate() returns.
C1_AllFinished(c) ==
    \A id \in cloc[c].snap :
        /\ m_task_status[id] = [status |-> "Finished",
                                result |-> TaskResult(id)]
        /\ id \notin Queued

\* C1: graceful shutdown loses no task.  In the step in which a terminate()
\* that found the pool working returns, every id add_task had returned
\* before the call is Finished, with its task's result, and none of them is
\* in the queue.
C1_GracefulShutdownLosesNoTask ==
    [][\A c \in Clients :
          (~GracefulReturned(c) /\ GracefulReturned(c)') =>
              C1_AllFinished(c)']_vars

\* A terminate() has returned that was called while a task add_task had
\* already returned was not yet dequeued.
C1_Witness ==
    \E c \in Clients :
        GracefulReturned(c) /\ (cloc[c].snap \ cloc[c].deq) # {}

\* Client c's terminate_now() has returned.
ImmediateReturned(c) == cpc[c] = "done" /\ cop[c] = "terminate_now"

\* What C2 promises client c when its terminate_now() returns.
C2_AtReturn(c) ==
    /\ \A id \in cloc[c].snap :
           \/ StatusOf(id) = "Finished"
           \/ StatusOf(id) = "Waiting" /\ id \in Cleared
    /\ \A id \in TaskIds : StatusOf(id) # "Working"

C2_DiscardedStaysWaiting ==
    \A id \in Cleared : StatusOf(id) \in {"None", "Waiting"}

\* C2: immediate shutdown cancels exactly the still-queued tasks.  In the
\* step in which terminate_now() returns, every id that was queued with
\* status Waiting at the call is Finished, or is Waiting and was discarded,
\* and no id is Working.  A discarded id is never Working or Finished, and
\* stays discarded in every later state.
C2_ImmediateShutdownCancelsQueued ==
    /\ [][\A c \in Clients :
             (~ImmediateReturned(c) /\ ImmediateReturned(c)') =>
                 C2_AtReturn(c)']_vars
    /\ []C2_DiscardedStaysWaiting
    /\ [][Cleared \subseteq Cleared']_vars

\* A terminate_now() on a working pool has returned; of the ids queued at
\* the call one was dequeued before the clear and is Finished, another was
\* discarded and is Waiting.
C2_Witness ==
    \E c \in Clients :
        /\ ImmediateReturned(c) /\ cloc[c].ran
        /\ \E id \in cloc[c].snap : StatusOf(id) = "Finished"
        /\ \E id \in cloc[c].snap : StatusOf(id) = "Waiting"

\* A terminate() or terminate_now() call has marked the pool Terminating
\* and has not returned yet.
ShutdownInProgress ==
    \E d \in Clients :
        /\ cop[d] \in {"terminate", "terminate_now"}
        /\ cpc[d] \in {"notify_all", "join", "clear", "reset_terminated",
                       "reset_initialized"}

\* Client c's add_task passes its check in this step / is rejected by it.
AddAccepted(c) == cpc[c] = "idle" /\ cpc'[c] = "add_emplace"
AddRejected(c) ==
    cpc[c] = "idle" /\ cpc'[c] = "done" /\ cop'[c] = "add_task"

\* C3: add_task is rejected whenever the pool is not Running.  A call is
\* accepted only by a pool that is initialized, not terminated and not in
\* the middle of a shutdown; a rejected call returns (size_t)-1 and leaves
\* the queue and the status table as they were.
C3_RejectedUnlessRunning ==
    [][\A c \in Clients :
          /\ AddAccepted(c) => working_unsafe /\ ~ShutdownInProgress
          /\ AddRejected(c) =>
                /\ cres'[c] = SIZE_MAX
                /\ m_tasks' = m_tasks
                /\ m_task_status' = m_task_status]_vars

Rank(st) ==
    CASE st = "None" -> 0
      [] st = "Waiting" -> 1
      [] st = "Working" -> 2
      [] st = "Finished" -> 3

\* C4: task status is monotonic and Finished is terminal.  No step moves the
\* status of an id backwards in None -> Waiting -> Working -> Finished, and
\* no step changes the status or the result of an id that is Finished.
C4_StatusMonotonic ==
    [][\A id \in IdDom :
          /\ Rank(m_task_status'[id].status) >= Rank(StatusOf(id))
          /\ StatusOf(id) = "Finished" =>
                m_task_status'[id] = m_task_status[id]]_vars

\* Some worker thread is idle: entering the wait or blocked in it.
SomeWorkerIdle == \E w \in Workers : wpc[w] \in {"lock", "prewait", "waiting"}

\* C5: no lost wake-up.  While the pool is Running, a task that is in the
\* queue while some worker is idle is eventually dequeued (or the pool
\* stops Running), with no further call needed.
C5_NoLostWakeup ==
    \A id \in TaskIds :
        (working_unsafe /\ id \in Queued /\ SomeWorkerIdle)
            ~> (id \in dequeued \/ ~working_unsafe)

\* Client c's shutdown call leaves its join loop in this step.
LeavesJoinLoop(c) == cpc[c] \in {"notify_all", "join"} /\ cpc'[c] = "clear"

\* C6: both shutdowns block until every worker has exited, and do
\* terminate.  A shutdown of a working pool leaves its join loop only when
\* every thread of m_workers has left routine() and been joined, and every
\* such shutdown eventually returns.
C6_ShutdownJoinsAllAndReturns ==
    /\ [][\A c \in Clients :
             LeavesJoinLoop(c) =>
                 \A k \in 1..Len(m_workers') :
                     ~m_workers'[k] /\ wpc'[k] = "exited"]_vars
    /\ \A c \in Clients : (cpc[c] = "notify_all") ~> (cpc[c] = "done")

\* C7: task ids are unique and increasing.  The ids add_task has returned
\* are pairwise different, and a returned id is larger than every id that
\* had been returned when the call began.
C7_IdsUniqueAndIncreasing ==
    /\ \A i, j \in 1..Len(returned) : i < j => returned[i] # returned[j]
    /\ \A c \in Clients :
          (cpc[c] = "done" /\ cop[c] = "add_task" /\ cres[c] # SIZE_MAX) =>
              /\ cres[c] \in Range(returned)
              /\ \A x \in cloc[c].snap : x < cres[c]

\* add_task has returned a valid id on a pool that has workers, after an
\* earlier id was discarded from the queue by terminate_now().
C7_Witness ==
    \E c \in Clients :
        /\ cpc[c] = "done" /\ cop[c] = "add_task" /\ cres[c] # SIZE_MAX
        /\ Len(m_workers) > 0
        /\ cloc[c].snap \cap Cleared # {}

\* C8: dequeue order is FIFO.  Every id still in the queue is larger than
\* (was enqueued after) every id already dequeued, so of two ids queued at
\* the same time the smaller one is popped first.
C8_DequeueOrderIsFIFO ==
    \A x \in dequeued : \A y \in Queued : x < y

\* Two workers hold tasks at once; the one holding the smaller id popped it
\* while a later task was in the queue.
C8_Witness ==
    \E w1, w2 \in Workers :
        /\ w1 # w2 /\ w_acquired[w1] /\ w_acquired[w2]
        /\ w_queue_len[w1] >= 1
        /\ w_task_id[w1] < w_task_id[w2]

\* Client c's terminate_now() took the branch of a working pool and has
\* returned.
ImmediateRan(c) == ImmediateReturned(c) /\ cloc[c].ran

\* Client c's terminate() or terminate_now() took the branch of a working
\* pool and has returned.
ShutdownRan(c) ==
    cpc[c] = "done" /\ cop[c] \in {"terminate", "terminate_now"} /\ cloc[c].ran

\* Every id a worker has popped is Finished, with its task's result.
C9_DequeuedAreFinished ==
    \A id \in dequeued :
        m_task_status[id] = [status |-> "Finished", result |-> TaskResult(id)]

\* C9: a dequeued task always runs to completion.  In the step in which a
\* shutdown that found the pool working returns, every id a worker has
\* popped is Finished with its result; and when that shutdown is a
\* terminate_now(), the Finished ids are exactly the ids dequeued before
\* the call cleared the queue.
C9_DequeuedTaskRunsToCompletion ==
    [][\A c \in Clients :
          /\ (~ShutdownRan(c) /\ ShutdownRan(c)') => C9_DequeuedAreFinished'
          /\ (~ImmediateRan(c) /\ ImmediateRan(c)') =>
                ({id \in TaskIds : StatusOf(id) = "Finished"}
                     = cloc[c].deq)']_vars

\* The pool is not Running and no shutdown holds it: never initialized, or
\* shut down.
Idle == ~m_initialized /\ ~m_terminated /\ ~ShutdownInProgress

\* C10: double initialization and double termination are idempotent no-ops.
\* initialize() on an initialized pool, and terminate() / terminate_now()
\* on a pool that was never initialized or is shut down, change neither the
\* workers, the queue, the status table nor the flags, and raise no error.
C10_RepeatedCallsAreNoOps ==
    [][\A c \in Clients :
          /\ (cpc[c] = "idle" /\ cop'[c] = "initialize" /\ m_initialized)
                => poolVars' = poolVars /\ wpc' = wpc /\ ~aborted'
          /\ (cpc[c] = "idle" /\ cop'[c] = "terminate" /\ Idle)
                => poolVars' = poolVars /\ wpc' = wpc /\ ~aborted'
          /\ (cpc[c] = "now_lock" /\ cpc'[c] # "now_lock" /\ Idle)
                => poolVars' = poolVars /\ wpc' = wpc /\ ~aborted']_vars

\* The destructor found the pool working and has finished.
DestructorRan(c) == cpc[c] = "done" /\ cop[c] = "destructor" /\ cloc[c].ran

\* What C11 promises when the destructor of a working pool has finished.
C11_AtEnd ==
    \A c \in Clients :
        DestructorRan(c) =>
            /\ m_workers = <<>>
            /\ \A w \in Workers : wpc[w] = "none"
            /\ \A id \in cloc[c].snap :
                   /\ m_task_status[id] = [status |-> "Finished",
                                           result |-> TaskResult(id)]
                   /\ id \notin Queued

GetStatusStep(c) == cpc[c] = "idle" /\ cop'[c] = "get_status"

\* C12: get_status is a pure query.  A call changes neither the status
\* table, the queue, the workers nor the flags and raises no error; for an
\* id that no add_task call has returned it returns 0; for a returned id
\* the table holds an entry that is Waiting, Working or Finished, and a
\* Working entry yields 0.
C12_GetStatusIsPureQuery ==
    [][\A c \in Clients :
          GetStatusStep(c) =>
              /\ poolVars' = poolVars
              /\ ~aborted'
              /\ cloc'[c].id \notin Range(returned) => cres'[c] = 0
              /\ cloc'[c].id \in Range(returned) =>
                    /\ StatusOf(cloc'[c].id) \in {"Waiting", "Working",
                                                  "Finished"}
                    /\ StatusOf(cloc'[c].id) = "Working" => cres'[c] = 0]_vars

\* C13: the Waiting entry is recorded before any worker can see the id.
\* An id is Waiting in the table at the step in which a worker pops it; the
\* worker's write of Working finds the entry; add_task's write of Waiting
\* is the write that creates it.
C13_WaitingRecordedBeforeDequeue ==
    [][/\ \A id \in dequeued' \ dequeued : StatusOf(id) = "Waiting"
       /\ \A w \in Workers :
             (wpc[w] = "working" /\ wpc'[w] = "run") =>
                 StatusOf(w_task_id[w]) # "None"
       /\ \A c \in Clients :
             (cpc[c] = "add_status" /\ cpc'[c] = "add_notify") =>
                 StatusOf(cloc[c].id) = "None"]_vars

\* C14: structural access to the status table is mutually exclusive.  No
\* two threads are at an insertion into the table at once; no get_status
\* runs while an insertion is pending; and the step that creates an entry
\* is made by a thread that holds m_rw_lock.
C14_TableInsertionsExclusive ==
    /\ [](Cardinality(InsertingClients) + Cardinality(InsertingWorkers) <= 1)
    /\ [][\A c \in Clients : GetStatusStep(c) => ~InsertPending]_vars
    /\ [][\A id \in IdDom :
             (StatusOf(id) = "None" /\ m_task_status'[id].status # "None") =>
                 \E w \in Workers :
                     rw_lock = w /\ wpc[w] = "working" /\ w_task_id[w] = id]_vars

\* Worker w is executing a task: between line 111 and line 123.
Executing(w) == wpc[w] \in {"run", "finish"}

\* C15: a worker never holds the coordination lock while executing a task.
\* A worker between its write of Working and its write of Finished does
\* not hold m_rw_lock.
C15_NoLockWhileExecuting ==
    \A w \in Workers : Executing(w) => rw_lock # w

\* While one worker executes a task another worker holds the lock, inside
\* its wait.
C15_Witness ==
    \E w1, w2 \in Workers :
        w1 # w2 /\ Executing(w1) /\ wpc[w2] = "prewait" /\ rw_lock = w2

\* C16: each task is executed at most once and by one worker.  No pop
\* returns an id that was popped before; two workers that hold tasks hold
\* different ids; and the step that writes Working or Finished for a task
\* id is made by the worker that popped it.
C16_TaskExecutedOnceByOneWorker ==
    /\ [][\A w \in Workers :
             (wpc[w] = "lock" /\ w_acquired'[w]) =>
                 w_task_id'[w] \notin dequeued]_vars
    /\ [](\A w1, w2 \in Workers :
             (w1 # w2 /\ w_acquired[w1] /\ w_acquired[w2]) =>
                 w_task_id[w1] # w_task_id[w2])
    /\ [][\A id \in TaskIds :
             (/\ m_task_status'[id].status \in {"Working", "Finished"}
              /\ m_task_status'[id].status # StatusOf(id)) =>
                 \E w \in Workers :
                     /\ w_acquired[w] /\ w_task_id[w] = id
                     /\ wpc[w] \in {"working", "finish"}
                     /\ wpc'[w] # wpc[w]]_vars

\* Two workers execute two different tasks at once.
C16_Witness ==
    \E w1, w2 \in Workers :
        /\ w1 # w2 /\ Executing(w1) /\ Executing(w2)
        /\ w_task_id[w1] \in TaskIds /\ w_task_id[w2] \in TaskIds

InitializeStep(c) == cpc[c] = "idle" /\ cop'[c] = "initialize"

\* Client c's terminate() or terminate_now() returns in this step.
ShutdownReturns(c) ==
    /\ cop'[c] \in {"terminate", "terminate_now"}
    /\ cpc[c] # "done" /\ cpc'[c] = "done"

\* C18: pool life cycle.  initialize on an uninitialized pool starts from
\* no workers and leaves the pool Running exactly when it started at least
\* one worker, each of them entering routine(); initialize during a
\* shutdown changes nothing; when a shutdown returns the pool is
\* uninitialized with no workers; add_task is accepted by a Running pool
\* and only by it.
C18_PoolLifeCycle ==
    [][\A c \in Clients :
          /\ (InitializeStep(c) /\ Idle) =>
                /\ m_workers = <<>>
                /\ m_initialized' = (Len(m_workers') > 0)
                /\ ~m_terminated'
                /\ \A k \in 1..Len(m_workers') :
                       m_workers'[k] /\ wpc'[k] = "lock"
          /\ (InitializeStep(c) /\ ShutdownInProgress) =>
                poolVars' = poolVars /\ wpc' = wpc
          /\ ShutdownReturns(c) =>
                ~m_initialized' /\ ~m_terminated' /\ m_workers' = <<>>
          /\ (cpc[c] = "idle" /\ cop'[c] = "add_task") =>
                (AddAccepted(c) <=> working_unsafe)]_vars

\* Client c executes m_workers.clear() in this step: line 213 or 251, or
\* the branch of a pool that is not working (lines 199 and 240).
ClearStep(c) ==
    \/ cpc[c] = "clear" /\ cpc'[c] # "clear"
    \/ cpc[c] = "idle" /\ cop'[c] = "terminate" /\ ~working_unsafe
    \/ cpc[c] = "now_lock" /\ cpc'[c] # "now_lock" /\ ~working_unsafe

\* Worker thread w is alive: started and not yet out of routine().
Alive(w) == wpc[w] \notin {"none", "exited"}

\* C19: worker handles are discarded only after their threads have been
\* joined.  m_workers.clear() is executed only when every handle has been
\* joined and no worker is alive, and m_terminated is reset to false only
\* when no worker is alive.
C19_HandlesDiscardedAfterJoin ==
    [][/\ \A c \in Clients :
             ClearStep(c) =>
                 /\ \A k \in 1..Len(m_workers) : ~m_workers[k]
                 /\ \A w \in Workers : ~Alive(w)
       /\ (m_terminated /\ ~m_terminated') =>
             \A w \in Workers : ~Alive(w)]_vars

\* No worker is left and no shutdown is running.
Stopped == m_workers = <<>> /\ ~ShutdownInProgress

\* C20: an accepted task is never stranded.  When a shutdown returns the
\* queue is empty; whenever the pool is stopped the queue is empty and
\* every id add_task has returned is Finished or was discarded by a
\* clear().
C20_AcceptedTaskNeverStranded ==
    /\ [][\A c \in Clients : ShutdownReturns(c) => Queued' = {}]_vars
    /\ [](Stopped => Queued = {})
    /\ [](Stopped => \A id \in Range(returned) :
                         StatusOf(id) = "Finished" \/ id \in Cleared)

====
